---- MODULE Spec2Model ----
(***************************************************************************)
(* State-machine model of the WhatsApp lead-qualification bot:             *)
(* DialogueManager (dialogue_manager.py), ConversationStore                *)
(* (conversation_store.py) and GeminiAdapter (llm_adapter.py).             *)
(* Text is modelled as a sequence of one-character strings, so that        *)
(* lower(), strip(), `in` and re.findall(r'\d+') are computed; the store   *)
(* file is written as JSON text and parsed again.                          *)
(* Spec is the engine serving one call at a time; SpecFault adds a store   *)
(* file that fails, SpecDays the passing of midnight, SpecRace two calls   *)
(* whose steps interleave.                                                 *)
(***************************************************************************)
EXTENDS Integers, Sequences, FiniteSets, TLC

VARIABLES
    flow_id,        \* which Flow Document _load_dialogue_flow loaded (read-only)
    llm_enabled,    \* GeminiAdapter.is_enabled() (fixed at construction)
    user_states,    \* DialogueManager.user_states: phone -> state dict
    stored,         \* content of the ConversationStore JSON file: phone -> state dict
    disk,           \* condition of the file: "ok", "unreadable", "unwritable", "unusable"
    today,          \* the calendar day (datetime.now()), counted from 1
    file_day,       \* the day in the name of the store file, fixed at construction
    written_on,     \* history: the day of the last set of each sender's record (0: none)
    inflight,       \* the calls the transport runs concurrently, step by step
    last,           \* history: the last operation, the world before it and its result
    invalid_run,    \* history: consecutive invalid answers per sender (saturating)
    contacts,       \* ContactManager.contacts_df: cleaned phone text -> row
    response        \* history: the last webhook request and the response to it

vars == <<flow_id, llm_enabled, user_states, stored, disk, today, file_day,
          written_on, inflight, last, invalid_run, contacts, response>>

\* The last calendar day of the model.
MaxDay == 2

\* Saturation bound of the invalid_run history counter.
MaxInvalidRun == 2

(***************************************************************************)
(* Text helpers                                                            *)
(***************************************************************************)
UpperCase ==
    <<"A","B","C","D","E","F","G","H","I","J","K","L","M",
      "N","O","P","Q","R","S","T","U","V","W","X","Y","Z">>

LowerCase ==
    <<"a","b","c","d","e","f","g","h","i","j","k","l","m",
      "n","o","p","q","r","s","t","u","v","w","x","y","z">>

Whitespace == {" ", "\t", "\n"}

Digits == <<"0","1","2","3","4","5","6","7","8","9">>

\* the decimal value of each digit character
DigitTable == [c \in {Digits[i] : i \in 1..10} |-> (CHOOSE i \in 1..10 : Digits[i] = c) - 1]

IsDigit(c) == c \in DOMAIN DigitTable

DigitVal(c) == DigitTable[c]

SetMin(S) == CHOOSE x \in S : \A y \in S : x <= y

SetMax(S) == CHOOSE x \in S : \A y \in S : y <= x

\* the lower-case letter of each upper-case letter
LowerTable ==
    [c \in {UpperCase[i] : i \in 1..26} |-> LowerCase[CHOOSE i \in 1..26 : UpperCase[i] = c]]

\* str.lower() on one character
LowerChar(c) == IF c \in DOMAIN LowerTable THEN LowerTable[c] ELSE c

\* str.lower()
str_lower(s) == [i \in 1..Len(s) |-> LowerChar(s[i])]

\* str.strip(): drop leading and trailing whitespace
str_strip(s) ==
    LET keep == {i \in 1..Len(s) : s[i] \notin Whitespace}
    IN  IF keep = {} THEN <<>> ELSE SubSeq(s, SetMin(keep), SetMax(keep))

\* Python's `keyword in message` on strings: substring containment
str_contains(keyword, message) ==
    \E i \in 0..(Len(message) - Len(keyword)) :
        SubSeq(message, i + 1, i + Len(keyword)) = keyword

\* any(keyword in message for keyword in keywords)
any_keyword_in(keywords, message) ==
    \E keyword \in keywords : str_contains(keyword, message)

\* int() of a run of decimal digits
RECURSIVE str_to_int(_)
str_to_int(ds) ==
    IF ds = <<>> THEN 0
    ELSE str_to_int(SubSeq(ds, 1, Len(ds) - 1)) * 10 + DigitVal(ds[Len(ds)])

\* re.findall(r'\d+', message): the maximal digit runs, left to right
RECURSIVE re_findall_digits(_)
re_findall_digits(message) ==
    LET digs == {i \in 1..Len(message) : IsDigit(message[i])}
    IN  IF digs = {} THEN <<>>
        ELSE LET first == SetMin(digs)
                 stop  == SetMin({j \in first..Len(message) :
                                     j = Len(message) \/ ~IsDigit(message[j + 1])})
             IN  <<SubSeq(message, first, stop)>>
                   \o re_findall_digits(SubSeq(message, stop + 1, Len(message)))

\* str.replace(placeholder, value) on a template of text pieces
str_replace(template, placeholder, value) ==
    [i \in 1..Len(template) |-> IF template[i] = placeholder THEN value ELSE template[i]]

\* dict.get(key, default)
Get(d, key, default) == IF key \in DOMAIN d THEN d[key] ELSE default

\* the empty dict {}
EmptyDict == [k \in {} |-> k]

\* a dict without one key
Without(d, key) == [k \in (DOMAIN d) \ {key} |-> d[k]]


(***************************************************************************)
(* Flow Documents (the JSON read by _load_dialogue_flow).  Replies are     *)
(* sequences of text pieces; keywords are character sequences.             *)
(***************************************************************************)
kw_yes == <<"y","e","s">>
kw_Yes == <<"Y","e","s">>
kw_sure == <<"s","u","r","e">>
kw_ok == <<"o","k">>
kw_no == <<"n","o">>
kw_salaried == <<"s","a","l","a","r","i","e","d">>
kw_employee == <<"e","m","p","l","o","y","e","e">>
kw_self == <<"s","e","l","f">>
kw_business == <<"b","u","s","i","n","e","s","s">>
kw_national == <<"n","a","t","i","o","n","a","l">>
kw_expat == <<"e","x","p","a","t">>

\* The flow of the specification: three questions, rules of spec section 8.
StdFlow ==
    [ states |->
        [ INITIAL |->
            [ message_template |-> <<"Hi ", "{name}", "! Interested in a mortgage?">>,
              next_state |-> "AWAITING_INTEREST" ],
          AWAITING_INTEREST |->
            [ positive_keywords |-> {kw_yes, kw_sure},
              negative_keywords |-> {kw_no},
              on_positive |-> [ message |-> <<"Great, a few questions.">>,
                                next_state |-> "QUESTION_1" ],
              on_negative |-> [ message |-> <<"No worries, goodbye.">> ],
              on_unclear  |-> [ message |-> <<"Please answer Yes or No.">> ] ],
          QUESTION_1 |->
            [ message |-> <<"Salaried or self-employed?">>,
              next_state |-> "AWAITING_ANSWER_1" ],
          AWAITING_ANSWER_1 |->
            [ valid_responses |-> ("salaried" :> {kw_salaried, kw_employee})
                                  @@ ("self-employed" :> {kw_self, kw_business}),
              store_as |-> "employment_type",
              on_valid |-> [ message |-> <<"Noted.">> ],
              on_invalid |-> [ message |-> <<"Salaried or self-employed, please.">> ] ],
          QUESTION_2 |->
            [ message |-> <<"Monthly income in AED?">>,
              next_state |-> "AWAITING_ANSWER_2" ],
          AWAITING_ANSWER_2 |->
            [ minimum_income |-> 5000,
              store_as |-> "monthly_income",
              on_below_minimum |-> [ message |-> <<"Sorry, income too low.">> ],
              on_valid |-> [ message |-> <<"Thanks.">> ],
              on_invalid |-> [ message |-> <<"A number, please.">> ] ],
          QUESTION_3 |->
            [ message |-> <<"UAE national or expatriate?">>,
              next_state |-> "AWAITING_ANSWER_3" ],
          AWAITING_ANSWER_3 |->
            [ valid_responses |-> ("uae_national" :> {kw_national})
                                  @@ ("expatriate" :> {kw_expat}),
              store_as |-> "residency_status",
              on_invalid |-> [ message |-> <<"UAE national or expatriate, please.">> ] ],
          EVALUATE_ELIGIBILITY |->
            [ qualification_rules |->
                [ employment_type |-> {"salaried", "self-employed"},
                  monthly_income_minimum |-> 5000,
                  residency_status |-> {"uae_national", "expatriate"} ],
              on_qualified |-> [ message_template |-> <<"Book a call: ", "{calendly_link}">> ],
              on_not_qualified |-> [ message |-> <<"Sorry, not eligible.">> ] ] ],
      calendly_link |-> "https://calendly.com/demo",
      error_handling |-> [ max_retries |-> 2,
                           technical_error_message |-> <<"Technical problem, sorry.">> ],
      product_hook |-> "mortgage" ]

\* A flow that leaves every optional key out, so every .get default is used:
\* INITIAL -> AWAITING_INTEREST -> QUESTION_1 -> END.
DefaultsFlow ==
    [ states |->
        [ INITIAL |-> EmptyDict,
          AWAITING_INTEREST |->
            [ positive_keywords |-> {kw_yes},
              negative_keywords |-> {kw_no} ],
          QUESTION_1 |-> EmptyDict ] ]

\* A short flow whose gate leads to a state the engine has no handler for, and
\* whose positive keywords are written with a capital letter.
CustomFlow ==
    [ states |->
        [ INITIAL |-> [ message_template |-> <<"Hello ", "{name}", ", ", "{name}", "?">>,
                        next_state |-> "AWAITING_INTEREST" ],
          AWAITING_INTEREST |->
            [ positive_keywords |-> {kw_Yes, kw_ok},
              negative_keywords |-> {kw_no},
              on_positive |-> [ message |-> <<"One moment.">>,
                                next_state |-> "CONFIRM_DETAILS" ],
              on_negative |-> [ message |-> <<"Bye.">> ],
              on_unclear  |-> [ message |-> <<"Yes or No?">> ] ],
          CONFIRM_DETAILS |-> [ message |-> <<"Please confirm.">> ] ],
      error_handling |-> [ max_retries |-> 2,
                           technical_error_message |-> <<"Something went wrong.">> ] ]

\* A short flow whose greeting leads to an identifier that is no key of states.
DanglingFlow ==
    [ states |->
        [ INITIAL |-> [ message_template |-> <<"Welcome.">>,
                        next_state |-> "WELCOME_BACK" ] ],
      error_handling |-> [ max_retries |-> 0 ] ]

\* The standard flow, except that the gate's positive branch goes straight to
\* the eligibility evaluator, which then waits for the next inbound message.
DirectEvalFlow ==
    [ StdFlow EXCEPT !.states.AWAITING_INTEREST.on_positive.next_state =
                         "EVALUATE_ELIGIBILITY" ]

\* The standard flow, except that the income is stored under another field
\* name and the rule set accepts every income (threshold 0).
AltFieldFlow ==
    [ StdFlow EXCEPT !.states.AWAITING_ANSWER_2.store_as = "income",
                     !.states.AWAITING_ANSWER_2.minimum_income = 3000,
                     !.states.EVALUATE_ELIGIBILITY.qualification_rules.monthly_income_minimum = 0 ]

\* A flow with one question only: the gate, QUESTION_1 and its answer state.
\* Every next_state it names is one of its keys.
OneQuestionFlow ==
    [ StdFlow EXCEPT !.states =
        [ id \in {"INITIAL", "AWAITING_INTEREST", "QUESTION_1", "AWAITING_ANSWER_1"} |->
            StdFlow.states[id] ] ]

Flows ==
    <<StdFlow, DefaultsFlow, CustomFlow, DanglingFlow, DirectEvalFlow, AltFieldFlow,
      OneQuestionFlow>>

(***************************************************************************)
(* Inputs of process_message                                               *)
(***************************************************************************)
\* The sender ids that write in.  The engine only uses an id as a dict key,
\* and the state space grows with the square of one sender's states, so the
\* conversations of one id are explored in full.
Senders == {"+971500000001"}

\* The From field Twilio sends for the first sender, and the texts of both.
WebhookSender == "whatsapp:+971500000001"

AllSenders == Senders \cup {"+971500000002", WebhookSender}

PhoneText ==
    [ p \in {"+971500000001", WebhookSender} |->
        LET digits == <<"+","9","7","1","5","0","0","0","0","0","0","0","1">>
        IN  IF p = WebhookSender
            THEN <<"w","h","a","t","s","a","p","p",":">> \o digits ELSE digits ]

\* "" stands for a ProfileName that is None or empty (both are falsy).
Names == {"", "Ali"}

m_Yes == <<"Y","e","s">>
m_yes_padded == <<" ","y","e","s"," ">>
m_OK == <<"O","K">>
m_No == <<"N","o">>
m_yes_or_no == <<"y","e","s"," ","o","r"," ","n","o">>
m_maybe == <<"m","a","y","b","e">>
m_Salaried == <<"S","a","l","a","r","i","e","d">>
m_own_business == <<"o","w","n"," ","b","u","s","i","n","e","s","s">>
m_about_7500 == <<"a","b","o","u","t"," ","7","5","0","0"," ","a","e","d">>
m_3000 == <<"3","0","0","0">>
m_4000_to_9000 == <<"4","0","0","0","-","9","0","0","0">>
m_Expat == <<"E","x","p","a","t">>
m_UAE_National == <<"U","A","E"," ","N","a","t","i","o","n","a","l">>

Messages ==
    { m_Yes,
      m_yes_padded,
      m_OK,
      m_No,
      m_yes_or_no,
      m_maybe,
      m_Salaried,
      m_own_business,
      m_about_7500,
      m_3000,
      m_4000_to_9000,
      m_Expat,
      m_UAE_National }

(***************************************************************************)
(* Conversation state and store                                            *)
(***************************************************************************)
\* The state dict of a new user (get_user_state); "None" is Python's None.
NewUserState ==
    [ current_state |-> "INITIAL",
      conversation_data |-> EmptyDict,
      message_count |-> 0,
      retry_count |-> 0,
      outcome |-> "None" ]

\* d[key] = value on a dict
Put(d, key, value) == (key :> value) @@ d

\* self.dialogue_data: the loaded Flow Document
flow == Flows[flow_id]

\* self.states = dialogue_data.get('states', {})
States == Get(flow, "states", EmptyDict)

\* str.startswith on state identifiers (identifiers are atomic in the model;
\* the table lists the identifiers of the flows with each prefix)
startswith(state_id, prefix) ==
    CASE prefix = "AWAITING_ANSWER" ->
            state_id \in {"AWAITING_ANSWER_1", "AWAITING_ANSWER_2", "AWAITING_ANSWER_3"}
      [] prefix = "QUESTION" ->
            state_id \in {"QUESTION_1", "QUESTION_2", "QUESTION_3"}
      [] OTHER -> FALSE

(***************************************************************************)
(* JSON text of the store file.  The text is a sequence of tokens: the     *)
(* punctuation { } : , the quote, the content of a string, one token per   *)
(* decimal digit, and null.                                                *)
(***************************************************************************)
Quote == "\""

\* Mutant of int_to_str: only the last digit is written.
int_to_str_last_digit(n) == <<Digits[(n % 10) + 1]>>

\* json.dump of an int: its decimal digits
RECURSIVE int_to_str(_)
int_to_str(n) ==
    IF n < 10 THEN <<Digits[n + 1]>>
    ELSE int_to_str(n \div 10) \o <<Digits[(n % 10) + 1]>>

\* json.dump of a str (the texts of a state dict need no escapes)
json_str(s) == <<Quote, s, Quote>>

\* json.dump of the members of a dict, given the text of each value
\* ("key": value, separated by commas; the order of the keys does not show
\* after json.load)
RECURSIVE json_members(_)
json_members(texts) ==
    IF DOMAIN texts = {} THEN <<>>
    ELSE LET key  == CHOOSE k \in DOMAIN texts : TRUE
             rest == Without(texts, key)
         IN  json_str(key) \o <<":">> \o texts[key]
               \o (IF DOMAIN rest = {} THEN <<>> ELSE <<",">> \o json_members(rest))

json_object(texts) == <<"{">> \o json_members(texts) \o <<"}">>

\* The conversation_data fields that hold a Python int: the field the income
\* state stores int(numbers[0]) under.
IntFields == {Get(Get(States, "AWAITING_ANSWER_2", EmptyDict), "store_as", "monthly_income")}

\* json.dump of a state dict: str values quoted, int values as digits, None
\* as null
json_state(state) ==
    json_object(
        [ k \in DOMAIN state |->
            CASE k = "conversation_data" ->
                    json_object([ f \in DOMAIN state[k] |->
                                    IF f \in IntFields THEN int_to_str(state[k][f])
                                    ELSE json_str(state[k][f]) ])
              [] k \in {"message_count", "retry_count"} -> int_to_str(state[k])
              [] k = "outcome" ->
                    IF state[k] = "None" THEN <<"null">> ELSE json_str(state[k])
              [] OTHER -> json_str(state[k]) ])

\* json.dump(data): the text of the whole file
json_dump(data) == json_object([p \in DOMAIN data |-> json_state(data[p])])

\* The result of a failed parse.
ParseError == [ok |-> FALSE, value |-> EmptyDict, next |-> 0]

\* json.load: parse the value that starts at token i; next is the position
\* after it.  null is None, a digit run an int, quoted text a str, braces a dict.
\* The position of the last digit of the digit run that starts at token i.
RECURSIVE digits_end(_, _)
digits_end(text, i) ==
    IF i < Len(text) /\ IsDigit(text[i + 1]) THEN digits_end(text, i + 1) ELSE i

RECURSIVE parse_value(_, _)
RECURSIVE parse_members(_, _, _)
parse_value(text, i) ==
    IF i > Len(text) THEN ParseError
    ELSE IF text[i] = "null" THEN [ok |-> TRUE, value |-> "None", next |-> i + 1]
    ELSE IF text[i] = Quote
    THEN IF i + 2 <= Len(text) /\ text[i + 2] = Quote
         THEN [ok |-> TRUE, value |-> text[i + 1], next |-> i + 3]
         ELSE ParseError
    ELSE IF IsDigit(text[i])
    THEN LET stop == digits_end(text, i)
         IN  [ok |-> TRUE, value |-> str_to_int(SubSeq(text, i, stop)), next |-> stop + 1]
    ELSE IF text[i] = "{"
    THEN IF i + 1 <= Len(text) /\ text[i + 1] = "}"
         THEN [ok |-> TRUE, value |-> EmptyDict, next |-> i + 2]
         ELSE parse_members(text, i + 1, EmptyDict)
    ELSE ParseError

parse_members(text, i, members) ==
    IF ~(i + 3 <= Len(text) /\ text[i] = Quote /\ text[i + 2] = Quote /\ text[i + 3] = ":")
    THEN ParseError
    ELSE \* the value of the member is parsed once and bound to v
         CHOOSE result \in
             { IF ~v.ok \/ v.next > Len(text) THEN ParseError
               ELSE IF text[v.next] = ","
               THEN parse_members(text, v.next + 1, Put(members, text[i + 1], v.value))
               ELSE IF text[v.next] = "}"
               THEN [ok |-> TRUE, value |-> Put(members, text[i + 1], v.value),
                     next |-> v.next + 1]
               ELSE ParseError : v \in {parse_value(text, i + 4)} } : TRUE

\* json.load(f): the whole text must be one value
json_load(text) ==
    LET v == parse_value(text, 1)
    IN  IF v.ok /\ v.next = Len(text) + 1 THEN v ELSE ParseError

\* A world is what a call reads and writes: user_states (mem), the store file
\* (store: what json.load returns for its text) and the condition of the file
\* (disk: "ok", "unreadable" when it is missing or corrupt, "unwritable" when
\* writing it fails, "unusable" when both, "blocked" when open or json.load
\* raises for a while although the text of the file is intact).
Readable(disk_state) == disk_state \in {"ok", "unwritable"}

Writable(disk_state) == disk_state \in {"ok", "unreadable", "blocked"}

\* ConversationStore._read_all: {} when the file is missing or does not parse
read_all(w) == IF Readable(w.disk) THEN w.store ELSE EmptyDict

\* ConversationStore._write_all: json.dump replaces the text of the file, so a
\* later read loads that text; a failed write is logged and swallowed
write_all(w, data) ==
    IF ~Writable(w.disk) THEN w
    ELSE [w EXCEPT !.store = json_load(json_dump(data)).value, !.disk = "ok"]

\* ConversationStore.get
store_get(w, phone_number) == Get(read_all(w), phone_number, EmptyDict)

\* Mutant of store_set: the record is not written.
store_set_skips(w, phone_number, state) == w

\* Mutant of store_set: the file is written with the sender's record alone.
store_set_alone(w, phone_number, state) ==
    write_all(w, Put(EmptyDict, phone_number, state))

\* ConversationStore.set: read the file, replace the sender's record, write it
store_set(w, phone_number, state) ==
    write_all(w, Put(read_all(w), phone_number, state))

\* Mutant of store_delete: the record stays in the file.
store_delete_keeps(w, phone_number) == w

\* ConversationStore.delete
store_delete(w, phone_number) ==
    LET data == read_all(w)
    IN  IF phone_number \in DOMAIN data
        THEN write_all(w, Without(data, phone_number)) ELSE w

\* A call returns the new world with (reply, ended) or with the exception raised.
\* An exception raised inside a call that returns no value (update_user_state)
\* is carried by the world in a field exc until the caller returns.
Raise(w, exception) ==
    [ mem |-> w.mem, store |-> w.store, disk |-> w.disk,
      reply |-> <<>>, ended |-> FALSE, raised |-> exception ]

Raising(w) == "exc" \in DOMAIN w

Ret(w, reply, ended) ==
    IF Raising(w) THEN Raise(w, w.exc)
    ELSE [ mem |-> w.mem, store |-> w.store, disk |-> w.disk,
           reply |-> reply, ended |-> ended, raised |-> "none" ]

\* user_state[key] of a restored record that may lack the key
HasKey(user_state, key) == key \in DOMAIN user_state

\* Mutant of get_user_state: a persisted record is preferred to the in-memory
\* state.
get_user_state_prefers_store(w, phone_number) ==
    LET persisted == store_get(w, phone_number)
    IN  IF persisted # EmptyDict
        THEN [w EXCEPT !.mem = Put(w.mem, phone_number, persisted)]
        ELSE IF phone_number \in DOMAIN w.mem THEN w
        ELSE [w EXCEPT !.mem = Put(w.mem, phone_number, NewUserState)]

\* DialogueManager.get_user_state: in-memory state, else the persisted record,
\* else a new INITIAL state (`if persisted:` takes None and {} as absent)
get_user_state(w, phone_number) ==
    IF phone_number \in DOMAIN w.mem THEN w
    ELSE LET persisted == store_get(w, phone_number)
         IN  IF persisted # EmptyDict
             THEN [w EXCEPT !.mem = Put(w.mem, phone_number, persisted)]
             ELSE [w EXCEPT !.mem = Put(w.mem, phone_number, NewUserState)]

\* Mutant of update_user_state: the data of the transition is not merged into
\* conversation_data.
update_user_state_drops_data(w, phone_number, state, data) ==
    LET w1 == get_user_state(w, phone_number)
        user_state == [ w1.mem[phone_number] EXCEPT
                          !.current_state = state,
                          !.message_count = @ + 1 ]
    IN  store_set([w1 EXCEPT !.mem = Put(w1.mem, phone_number, user_state)],
                  phone_number, user_state)

\* DialogueManager.update_user_state: set the state, count the message, merge
\* the data, persist
\* On a restored record without message_count the += 1 raises KeyError after
\* current_state was assigned; without conversation_data the update(data) of
\* a transition that carries data raises after the count.
update_user_state(w, phone_number, state, data) ==
    LET w1 == get_user_state(w, phone_number)
        restored == w1.mem[phone_number]
        with_state == ("current_state" :> state) @@ restored
        with_count == [with_state EXCEPT !.message_count = @ + 1]
        user_state == [ restored EXCEPT
                          !.current_state = state,
                          !.message_count = @ + 1,
                          !.conversation_data = data @@ @ ]
    IN  IF ~HasKey(restored, "message_count")
        THEN [ mem |-> Put(w1.mem, phone_number, with_state), store |-> w1.store,
               disk |-> w1.disk, exc |-> "KeyError" ]
        ELSE IF ~HasKey(restored, "conversation_data")
        THEN IF data # EmptyDict
             THEN [ mem |-> Put(w1.mem, phone_number, with_count), store |-> w1.store,
                    disk |-> w1.disk, exc |-> "KeyError" ]
             ELSE store_set([w1 EXCEPT !.mem = Put(w1.mem, phone_number, with_count)],
                            phone_number, with_count)
        ELSE store_set([w1 EXCEPT !.mem = Put(w1.mem, phone_number, user_state)],
                       phone_number, user_state)

(***************************************************************************)
(* DialogueManager handlers                                                *)
(***************************************************************************)
\* The fixed reply of process_message for a sender at END.
ClosingMessage ==
    <<"Thank you! Your conversation has ended. Feel free to start a new conversation anytime.">>

\* GeminiAdapter.is_enabled
is_enabled == llm_enabled

\* text.strip()[:500]
MaxClarificationChars == 500

\* response.text for each outcome of generate_content
GeneratedText(outcome) ==
    CASE outcome = "text" -> <<" ", "Y", "e", "s", " ", "o", "r", " ", "n", "o", "?", "\n">>
      [] outcome = "long_text" -> [i \in 1..(MaxClarificationChars + 1) |-> "x"]
      [] OTHER -> <<>>

\* generate_content is called without a timeout: generate_clarification
\* returns only when generate_content returns or raises.
generator_returns(outcome) == outcome # "hangs"

\* GeminiAdapter.generate_clarification, for an outcome with which it
\* returns; <<>> stands for None and for "", which `if gen:` both takes as
\* no reply
generate_clarification(outcome) ==
    IF ~is_enabled \/ outcome = "raises" THEN <<>>
    ELSE LET text == GeneratedText(outcome)
         IN  IF text = <<>> THEN <<>>
             ELSE LET stripped == str_strip(text)
                  IN  SubSeq(stripped, 1,
                             IF Len(stripped) < MaxClarificationChars
                             THEN Len(stripped) ELSE MaxClarificationChars)

\* Mutant of display_name: the fallback for a missing name is forgotten.
display_name_no_fallback(user_name) == user_name

\* name = user_name if user_name else "there"
display_name(user_name) == IF user_name # "" THEN user_name ELSE "there"

\* _handle_initial: greeting with the name, move to INITIAL's next_state
handle_initial(w, phone_number, user_name) ==
    LET initial_state    == Get(States, "INITIAL", EmptyDict)
        message_template == Get(initial_state, "message_template", <<>>)
        name             == display_name(user_name)
        message          == str_replace(message_template, "{name}", name)
        next_state       == Get(initial_state, "next_state", "AWAITING_INTEREST")
    IN  Ret(update_user_state(w, phone_number, next_state, EmptyDict), message, FALSE)

\* _handle_interest_response.  In the unclear branch the condition
\*   self.llm.is_enabled() and user_state['retry_count'] < max_retries
\* reads the name user_state, which the function never binds: when
\* is_enabled() is true, evaluating the second operand raises NameError;
\* when it is false, `and` short-circuits and the static message is returned.
handle_interest_response(w, phone_number, message) ==
    LET state             == Get(States, "AWAITING_INTEREST", EmptyDict)
        positive_keywords == Get(state, "positive_keywords", {})
        negative_keywords == Get(state, "negative_keywords", {})
        on_positive       == Get(state, "on_positive", EmptyDict)
        on_negative       == Get(state, "on_negative", EmptyDict)
        on_unclear        == Get(state, "on_unclear", EmptyDict)
    IN  IF any_keyword_in(positive_keywords, message)
        THEN Ret(update_user_state(w, phone_number,
                                   Get(on_positive, "next_state", "QUESTION_1"), EmptyDict),
                 Get(on_positive, "message", <<"Great! Let me ask you a few questions.">>),
                 FALSE)
        ELSE IF any_keyword_in(negative_keywords, message)
        THEN Ret(update_user_state(w, phone_number, "END", EmptyDict),
                 Get(on_negative, "message", <<"No problem! Have a great day!">>),
                 TRUE)
        ELSE IF is_enabled
        THEN Raise(w, "NameError")
        ELSE Ret(w, Get(on_unclear, "message", <<"Please reply with Yes or No.">>), FALSE)

\* _handle_question: send the question, move to its next_state (default END)
handle_question(w, phone_number, state) ==
    Ret(update_user_state(w, phone_number, Get(state, "next_state", "END"), EmptyDict),
        Get(state, "message", <<>>),
        FALSE)

\* The three predicates and the conjunction of _handle_eligibility, as a
\* function of the collected answers and the rule set.
evaluate_rules(conversation_data, qualification_rules) ==
    LET employment == Get(conversation_data, "employment_type", "")
        income     == Get(conversation_data, "monthly_income", 0)
        residency  == Get(conversation_data, "residency_status", "")
        valid_employment == employment \in Get(qualification_rules, "employment_type", {})
        valid_income     == income >= Get(qualification_rules, "monthly_income_minimum", 5000)
        valid_residency  == residency \in Get(qualification_rules, "residency_status", {})
    IN  IF valid_employment /\ valid_income /\ valid_residency
        THEN "qualified" ELSE "disqualified"

\* Mutant of handle_eligibility: the outcome is set but the sender stays in
\* the state the evaluation was reached from.
handle_eligibility_keeps_state(w, phone_number) ==
    LET w1 == get_user_state(w, phone_number)
        outcome == evaluate_rules(w1.mem[phone_number].conversation_data,
                                  Get(Get(States, "EVALUATE_ELIGIBILITY", EmptyDict),
                                      "qualification_rules", EmptyDict))
        w2 == [w1 EXCEPT !.mem[phone_number].outcome = outcome]
    IN  Ret(update_user_state(w2, phone_number, w1.mem[phone_number].current_state,
                              EmptyDict),
            <<"Thank you for your time.">>, TRUE)

\* _handle_eligibility: set the outcome, move to END, end the conversation
handle_eligibility(w, phone_number) ==
    LET w1 == get_user_state(w, phone_number)
        conversation_data   == w1.mem[phone_number].conversation_data
        state               == Get(States, "EVALUATE_ELIGIBILITY", EmptyDict)
        qualification_rules == Get(state, "qualification_rules", EmptyDict)
        outcome             == evaluate_rules(conversation_data, qualification_rules)
        w2 == [w1 EXCEPT !.mem[phone_number].outcome = outcome]
        message ==
            IF outcome = "qualified"
            THEN str_replace(Get(Get(state, "on_qualified", EmptyDict), "message_template", <<>>),
                             "{calendly_link}",
                             Get(flow, "calendly_link", "https://calendly.com"))
            ELSE Get(Get(state, "on_not_qualified", EmptyDict), "message",
                     <<"Thank you for your time.">>)
    IN  IF Raising(w) THEN Raise(w, w.exc)
        ELSE IF ~HasKey(w1.mem[phone_number], "conversation_data")
        THEN Raise(w1, "KeyError")
        ELSE Ret(update_user_state(w2, phone_number, "END", EmptyDict), message, TRUE)

\* Mutant of invalid_answer: an invalid answer is counted as a retry.
invalid_answer_counts_retry(w, on_invalid, default_message) ==
    Ret([w EXCEPT !.mem = [p \in DOMAIN w.mem |->
                              [w.mem[p] EXCEPT !.retry_count = @ + 1]]],
        Get(on_invalid, "message", default_message), FALSE)

\* The invalid-input return of _handle_answer: the re-prompt, nothing else
invalid_answer(w, on_invalid, default_message) ==
    Ret(w, Get(on_invalid, "message", default_message), FALSE)

\* Mutant of residency_answer: the value is stored and the evaluation is left
\* to the next inbound message.
residency_answer_defers(w, phone_number, store_as, value) ==
    Ret(update_user_state(w, phone_number, "EVALUATE_ELIGIBILITY", store_as :> value),
        <<"Thank you!">>, FALSE)

\* The valid-residency branch of _handle_answer: store the value, then run
\* _handle_eligibility in the same call
residency_answer(w, phone_number, store_as, value) ==
    handle_eligibility(
        update_user_state(w, phone_number, "EVALUATE_ELIGIBILITY", store_as :> value),
        phone_number)

\* Mutant of income_of: the last number of the message is taken.
income_of_last_number(numbers) == str_to_int(numbers[Len(numbers)])

\* income = int(numbers[0]): the first number of the message, as an integer
income_of(numbers) == str_to_int(numbers[1])

\* _handle_answer: the three validated-answer states
handle_answer(w, phone_number, message, state_id) ==
    LET state           == Get(States, state_id, EmptyDict)
        valid_responses == Get(state, "valid_responses", EmptyDict)
        on_valid        == Get(state, "on_valid", EmptyDict)
        on_invalid      == Get(state, "on_invalid", EmptyDict)
    IN  IF state_id = "AWAITING_ANSWER_1"
        THEN LET store_as == Get(state, "store_as", "employment_type")
             IN  IF any_keyword_in(Get(valid_responses, "salaried", {}), message)
                 THEN Ret(update_user_state(w, phone_number, "QUESTION_2",
                                            store_as :> "salaried"),
                          Get(on_valid, "message", <<"Got it!">>), FALSE)
                 ELSE IF any_keyword_in(Get(valid_responses, "self-employed", {}), message)
                 THEN Ret(update_user_state(w, phone_number, "QUESTION_2",
                                            store_as :> "self-employed"),
                          Get(on_valid, "message", <<"Got it!">>), FALSE)
                 ELSE invalid_answer(w, on_invalid,
                                     <<"Please specify Salaried or Self-employed.">>)
        ELSE IF state_id = "AWAITING_ANSWER_2"
        THEN LET numbers == re_findall_digits(message)
             IN  IF numbers = <<>>
                 THEN invalid_answer(w, on_invalid, <<"Please provide a numeric value.">>)
                 ELSE LET income         == income_of(numbers)
                          minimum_income == Get(state, "minimum_income", 5000)
                          store_as       == Get(state, "store_as", "monthly_income")
                      IN  IF income < minimum_income
                          THEN Ret(update_user_state(w, phone_number, "END", EmptyDict),
                                   Get(Get(state, "on_below_minimum", EmptyDict), "message",
                                       <<"Thank you for your interest.">>),
                                   TRUE)
                          ELSE Ret(update_user_state(w, phone_number, "QUESTION_3",
                                                     store_as :> income),
                                   Get(on_valid, "message", <<"Thank you!">>), FALSE)
        ELSE IF state_id = "AWAITING_ANSWER_3"
        THEN LET store_as == Get(state, "store_as", "residency_status")
             IN  IF any_keyword_in(Get(valid_responses, "uae_national", {}), message)
                 THEN residency_answer(w, phone_number, store_as, "uae_national")
                 ELSE IF any_keyword_in(Get(valid_responses, "expatriate", {}), message)
                 THEN residency_answer(w, phone_number, store_as, "expatriate")
                 ELSE invalid_answer(w, on_invalid,
                                     <<"Please specify UAE National or Expatriate.">>)
        ELSE Ret(w, <<"I didn't understand. Please try again.">>, FALSE)

\* Mutant of handle_error: the error reply is sent but the sender is left
\* in the unusable state.
handle_error_stays(w, phone_number) ==
    Ret(w,
        Get(Get(flow, "error_handling", EmptyDict), "technical_error_message",
            <<"I'm experiencing technical difficulties.">>),
        TRUE)

\* _handle_error: move to END with the technical-error message
handle_error(w, phone_number) ==
    Ret(update_user_state(w, phone_number, "END", EmptyDict),
        Get(Get(flow, "error_handling", EmptyDict), "technical_error_message",
            <<"I'm experiencing technical difficulties.">>),
        TRUE)

\* Mutant of handle_end: the closing reply is counted like any other message.
handle_end_counts(w, phone_number) ==
    Ret(update_user_state(w, phone_number, "END", EmptyDict), ClosingMessage, TRUE)

\* The END branch of process_message: the fixed closing message, no update
handle_end(w, phone_number) == Ret(w, ClosingMessage, TRUE)

\* message.lower().strip()
normalize(message) == str_strip(str_lower(message))

\* DialogueManager.process_message after current_state_id was read: the
\* branch on it and the handler it calls
dispatch(w1, current_state_id, phone_number, message, user_name) ==
    IF current_state_id = "INITIAL"
    THEN handle_initial(w1, phone_number, user_name)
    ELSE IF current_state_id = "END"
    THEN handle_end(w1, phone_number)
    ELSE IF current_state_id \notin DOMAIN States
    THEN handle_error(w1, phone_number)
    ELSE LET message_lower == normalize(message)
         IN  IF current_state_id = "AWAITING_INTEREST"
             THEN handle_interest_response(w1, phone_number, message_lower)
             ELSE IF startswith(current_state_id, "AWAITING_ANSWER")
             THEN handle_answer(w1, phone_number, message_lower, current_state_id)
             ELSE IF current_state_id = "EVALUATE_ELIGIBILITY"
             THEN handle_eligibility(w1, phone_number)
             ELSE IF startswith(current_state_id, "QUESTION")
             THEN handle_question(w1, phone_number, States[current_state_id])
             ELSE handle_error(w1, phone_number)

\* Mutant of process_message: an employment answer typed while QUESTION_1 is
\* pending is taken as the answer.
process_message_reads_ahead(w, phone_number, message, user_name) ==
    LET w1 == get_user_state(w, phone_number)
        current_state_id == w1.mem[phone_number].current_state
    IN  IF /\ current_state_id = "QUESTION_1"
           /\ any_keyword_in({kw_salaried}, normalize(message))
        THEN Ret(update_user_state(w1, phone_number, "QUESTION_2",
                                   "employment_type" :> "salaried"),
                 <<"Got it!">>, FALSE)
        ELSE dispatch(w1, current_state_id, phone_number, message, user_name)

\* DialogueManager.process_message
process_message(w, phone_number, message, user_name) ==
    LET w1 == get_user_state(w, phone_number)
    IN  IF ~HasKey(w1.mem[phone_number], "current_state")
        THEN Raise(w1, "KeyError")
        ELSE dispatch(w1, w1.mem[phone_number].current_state, phone_number, message,
                      user_name)

(***************************************************************************)
(* ContactManager: the contact ledger held in memory                       *)
(***************************************************************************)
\* ContactManager._clean_phone_number: keep digits and "+", then make the
\* text start with "+" (UAE country code assumed)
clean_phone_number(phone) ==
    LET phone_str   == str_strip(phone)
        phone_clean == SelectSeq(phone_str, LAMBDA c : IsDigit(c) \/ c = "+")
        starts(prefix) == /\ Len(phone_clean) >= Len(prefix)
                          /\ SubSeq(phone_clean, 1, Len(prefix)) = prefix
    IN  IF starts(<<"+">>) THEN phone_clean
        ELSE IF starts(<<"9", "7", "1">>) THEN <<"+">> \o phone_clean
        ELSE IF starts(<<"0">>) THEN <<"+", "9", "7", "1">> \o Tail(phone_clean)
        ELSE <<"+", "9", "7", "1">> \o phone_clean

\* The rows _load_contacts reads: one contact, with the given Status, or none
\* when the file does not list the sender ("absent").
LoadedContacts(status) ==
    IF status = "absent" THEN EmptyDict
    ELSE clean_phone_number(PhoneText["+971500000001"]) :>
             [FullName |-> "Ahmed Ali", Status |-> status]

\* ContactManager.get_contact_by_phone; EmptyDict stands for None
get_contact_by_phone(c, phone_number) ==
    LET phone_clean == clean_phone_number(PhoneText[phone_number])
    IN  IF phone_clean \in DOMAIN c THEN c[phone_clean] ELSE EmptyDict

\* ContactManager.update_contact_status: set the Status of the matching row
update_contact_status(c, phone_number, status) ==
    LET phone_clean == clean_phone_number(PhoneText[phone_number])
    IN  IF phone_clean \in DOMAIN c
        THEN [c EXCEPT ![phone_clean].Status = status] ELSE c

\* ContactManager.mark_replied: replied, unless the row is past that stage
mark_replied(c, phone_number) ==
    LET phone_clean == clean_phone_number(PhoneText[phone_number])
    IN  IF phone_clean \in DOMAIN c /\ c[phone_clean].Status \in {"pending", "contacted"}
        THEN [c EXCEPT ![phone_clean].Status = "replied"] ELSE c

(***************************************************************************)
(* The state machine                                                       *)
(***************************************************************************)
NoCall ==
    [ kind |-> "none", phone_number |-> "", message |-> <<>>, user_name |-> "",
      generator |-> "unused",
      known |-> FALSE, pre |-> NewUserState, pre_mem |-> EmptyDict,
      pre_store |-> EmptyDict, pre_disk |-> "ok", pre_invalid_run |-> 0, reply |-> <<>>, ended |-> FALSE, raised |-> "none" ]

\* The world the next call runs in.
World == [mem |-> user_states, store |-> stored, disk |-> disk]

\* The threads of the transport that run process_message concurrently.
Threads == {1, 2}

\* A thread that runs no call.
IdleCall ==
    [ pc |-> "idle", phone_number |-> "", message |-> <<>>, current_state_id |-> "",
      data |-> EmptyDict, reply |-> <<>>, ended |-> FALSE, raised |-> "none" ]

\* No call is in flight (base is the world before the first of the
\* concurrent calls began).
NoInflight ==
    [ base |-> [mem |-> EmptyDict, store |-> EmptyDict, disk |-> "ok"],
      calls |-> [t \in Threads |-> IdleCall] ]

\* After construction: a flow is loaded, the generator is enabled or not,
\* no sender is known, today's store file holds {}.
\* No webhook request has been answered yet.
NoResponse ==
    [ status |-> 0, messages |-> <<>>, From |-> "", Body |-> <<>>, ProfileName |-> "",
      ledger_raises |-> FALSE, pre_contacts |-> EmptyDict ]

Init ==
    /\ flow_id \in DOMAIN Flows
    /\ llm_enabled \in BOOLEAN
    /\ user_states = EmptyDict
    /\ stored = json_load(json_dump(EmptyDict)).value
    /\ disk = "ok"
    /\ today = 1
    /\ file_day = 1
    /\ written_on = [p \in AllSenders |-> 0]
    /\ inflight = NoInflight
    /\ last = NoCall
    /\ invalid_run = [p \in AllSenders |-> 0]
    /\ contacts = LoadedContacts("pending")
    /\ response = NoResponse

AnswerStates == {"AWAITING_ANSWER_1", "AWAITING_ANSWER_2", "AWAITING_ANSWER_3"}

\* What self._model.generate_content does when it is called: it returns a
\* short text, a text longer than MaxClarificationChars or an empty text, it
\* raises, or it does not return ("hangs": the call passes no timeout).
GeneratorOutcomes == {"text", "long_text", "empty", "raises", "hangs"}

\* One inbound message: process_message(phone_number, message, user_name)
\* The generator answers only where the code can call it (the unclear branch
\* of the gate, with the generator enabled).
EngineCall(phone_number, message, user_name, generator) ==
    \E pre \in {get_user_state(World, phone_number).mem[phone_number]} :
      /\ generator \in (IF is_enabled /\ Get(pre, "current_state", "") = "AWAITING_INTEREST"
                        THEN GeneratorOutcomes ELSE {"unused"})
      /\ \E r \in {process_message(World, phone_number, message, user_name)} :
        LET reprompt == /\ Get(pre, "current_state", "") \in AnswerStates
                        /\ r.raised = "none"
                        /\ r.mem[phone_number].current_state = pre.current_state
        IN
        /\ user_states' = r.mem
        /\ stored' = r.store
        /\ disk' = r.disk
        /\ written_on' = (IF r.store # stored \/ r.disk # disk
                          THEN [written_on EXCEPT ![phone_number] = today]
                          ELSE written_on)
        /\ last' = [ kind |-> "process", phone_number |-> phone_number,
                     message |-> message, user_name |-> user_name,
                     generator |-> generator,
                     known |-> (phone_number \in DOMAIN user_states
                                \/ phone_number \in DOMAIN stored),
                     pre |-> pre, pre_mem |-> user_states, pre_store |-> stored,
                     pre_disk |-> disk,
                     pre_invalid_run |-> invalid_run[phone_number],
                     reply |-> r.reply, ended |-> r.ended, raised |-> r.raised ]
        /\ invalid_run' =
             [invalid_run EXCEPT ![phone_number] =
                 IF reprompt
                 THEN (IF @ < MaxInvalidRun THEN @ + 1 ELSE @)
                 ELSE 0]
        /\ UNCHANGED <<inflight, flow_id, llm_enabled, today, file_day>>

\* One inbound message handed to the engine alone, as the tests and the
\* command-line tools do: the contact ledger and the webhook are not involved.
ProcessMessage(phone_number, message, user_name, generator) ==
    /\ EngineCall(phone_number, message, user_name, generator)
    /\ UNCHANGED <<contacts, response>>

\* The text of the outer except of webhook.
WebhookErrorText == <<"Sorry, I encountered an error. Please try again later.">>

\* Mutant of webhook_response: an exception of process_message is left to
\* the framework, which answers 500 without a message.
webhook_response_propagates(raised, response_text) ==
    IF raised = "none" THEN [status |-> 200, messages |-> <<response_text>>]
    ELSE [status |-> 500, messages |-> <<>>]

\* What webhook returns: the TwiML with the reply, or with the error text when
\* anything in the try block raised; status 200 in both cases
webhook_response(raised, response_text) ==
    IF raised = "none" THEN [status |-> 200, messages |-> <<response_text>>]
    ELSE [status |-> 200, messages |-> <<WebhookErrorText>>]

\* webhook lines 90-104: the contact's Status after the reply was computed;
\* an exception of the ledger is swallowed and leaves the rows as they were
update_contact_lifecycle(c, from_number, is_end, state, ledger_raises) ==
    IF ledger_raises THEN c
    ELSE IF is_end
    THEN IF Get(state, "outcome", "None") = "qualified"
         THEN update_contact_status(c, from_number, "qualified")
         ELSE IF Get(state, "outcome", "None") = "disqualified"
         THEN update_contact_status(c, from_number, "disqualified")
         ELSE mark_replied(c, from_number)
    ELSE mark_replied(c, from_number)

\* POST /webhook: one inbound message from Twilio; the contact ledger may
\* raise while it is updated
Webhook(From, Body, ProfileName, generator) ==
    LET message_body == str_strip(Body)
        contact      == get_contact_by_phone(contacts, From)
        profile_name == IF ProfileName # "" THEN ProfileName
                        ELSE IF contact # EmptyDict THEN contact.FullName ELSE ""
    IN  /\ EngineCall(From, message_body, profile_name, generator)
        /\ \E ledger_raises \in (IF last'.raised = "none" THEN BOOLEAN ELSE {FALSE}) :
             /\ contacts' = IF last'.raised # "none" THEN contacts
                            ELSE update_contact_lifecycle(contacts, From, last'.ended,
                                                          user_states'[From], ledger_raises)
             /\ response' = webhook_response(last'.raised, last'.reply) @@
                            [ From |-> From, Body |-> Body, ProfileName |-> ProfileName,
                              ledger_raises |-> ledger_raises, pre_contacts |-> contacts ]

\* DialogueManager.reset_user
ResetUser(phone_number) ==
    /\ user_states' = (IF phone_number \in DOMAIN user_states
                       THEN Without(user_states, phone_number) ELSE user_states)
    /\ \E w \in {store_delete(World, phone_number)} :
           stored' = w.store /\ disk' = w.disk
    /\ last' = [NoCall EXCEPT !.kind = "reset", !.phone_number = phone_number,
                              !.pre_mem = user_states, !.pre_store = stored]
    /\ invalid_run' = [invalid_run EXCEPT ![phone_number] = 0]
    /\ written_on' = [written_on EXCEPT ![phone_number] =
                         IF phone_number \in DOMAIN stored' THEN @ ELSE 0]
    /\ UNCHANGED <<inflight, flow_id, llm_enabled, contacts, response, today, file_day>>

\* The file named after today, before any process has used it.
MissingFile ==
    [World EXCEPT !.store = EmptyDict,
                  !.disk = IF Writable(disk) THEN "unreadable" ELSE "unusable"]

\* The process is restarted: DialogueManager.__init__ builds an empty
\* user_states, and ConversationStore.__init__ names the file after today and
\* writes {} when that file does not exist (a damaged file is left as it is).
Restart ==
    /\ user_states' = EmptyDict
    /\ file_day' = today
    /\ \E w \in (IF today # file_day THEN {write_all(MissingFile, EmptyDict)}
                 ELSE IF disk = "unreadable" THEN {World, write_all(World, EmptyDict)}
                 ELSE {World}) :
           stored' = w.store /\ disk' = w.disk
    /\ last' = [NoCall EXCEPT !.kind = "restart", !.pre_mem = user_states,
                              !.pre_store = stored]
    /\ UNCHANGED <<inflight, flow_id, llm_enabled, contacts, response, today, written_on, invalid_run>>

Next ==
    \/ \E phone_number \in Senders, message \in Messages, user_name \in Names,
          generator \in GeneratorOutcomes \cup {"unused"} :
           ProcessMessage(phone_number, message, user_name, generator)
    \/ \E phone_number \in Senders : ResetUser(phone_number)
    \/ Restart

Spec == Init /\ [][Next]_vars

\* A small set of messages: one walk through the flow, an unclear and an
\* invalid input.
WalkMessages == {m_Yes, m_No, m_maybe, m_Salaried, m_about_7500, m_Expat}

(***************************************************************************)
(* The webhook: the engine behind app.py, with the contact ledger          *)
(***************************************************************************)
\* The Status the contacts file holds for the sender when the process starts.
LoadedStatuses == {"absent", "pending", "contacted", "qualified", "disqualified"}

WebhookBodies == WalkMessages \cup {m_yes_padded}

InitWebhook ==
    /\ flow_id \in DOMAIN Flows
    /\ llm_enabled \in BOOLEAN
    /\ user_states = EmptyDict
    /\ stored = json_load(json_dump(EmptyDict)).value
    /\ disk = "ok"
    /\ today = 1
    /\ file_day = 1
    /\ written_on = [p \in AllSenders |-> 0]
    /\ inflight = NoInflight
    /\ last = NoCall
    /\ invalid_run = [p \in AllSenders |-> 0]
    /\ \E status \in LoadedStatuses : contacts = LoadedContacts(status)
    /\ response = NoResponse

NextWebhook ==
    \E Body \in WebhookBodies, ProfileName \in Names,
       generator \in GeneratorOutcomes \cup {"unused"} :
        Webhook(WebhookSender, Body, ProfileName, generator)

SpecWebhook == InitWebhook /\ [][NextWebhook]_vars

(***************************************************************************)
(* The engine with a failing store file                                    *)
(***************************************************************************)
\* The store file is deleted or its text is damaged: json.load will raise.
FileLost ==
    /\ Readable(disk)
    /\ disk' = (IF disk = "ok" THEN "unreadable" ELSE "unusable")
    /\ stored' = EmptyDict
    /\ written_on' = [p \in AllSenders |-> 0]
    /\ last' = [NoCall EXCEPT !.kind = "disk"]
    /\ UNCHANGED <<inflight, flow_id, llm_enabled, contacts, response, user_states, today, file_day, invalid_run>>

\* Writing the file starts to fail (open or json.dump raises).
WritesFail ==
    /\ Writable(disk)
    /\ disk' = (IF disk = "ok" THEN "unwritable" ELSE "unusable")
    /\ last' = [NoCall EXCEPT !.kind = "disk"]
    /\ UNCHANGED <<inflight, flow_id, llm_enabled, contacts, response, user_states, stored, today, file_day,
                   written_on, invalid_run>>

\* Writing the file works again.
WritesRecover ==
    /\ ~Writable(disk)
    /\ disk' = (IF disk = "unwritable" THEN "ok" ELSE "unreadable")
    /\ last' = [NoCall EXCEPT !.kind = "disk"]
    /\ UNCHANGED <<inflight, flow_id, llm_enabled, contacts, response, user_states, stored, today, file_day,
                   written_on, invalid_run>>

NextFault ==
    \/ \E phone_number \in Senders, message \in WalkMessages,
          generator \in GeneratorOutcomes \cup {"unused"} :
           ProcessMessage(phone_number, message, "", generator)
    \/ \E phone_number \in Senders : ResetUser(phone_number)
    \/ Restart
    \/ FileLost
    \/ WritesFail
    \/ WritesRecover

SpecFault == Init /\ [][NextFault]_vars

(***************************************************************************)
(* The engine across midnight                                              *)
(***************************************************************************)
\* Midnight passes while the process keeps running.
Midnight ==
    /\ today < MaxDay
    /\ today' = today + 1
    /\ last' = [NoCall EXCEPT !.kind = "midnight"]
    /\ UNCHANGED <<inflight, flow_id, llm_enabled, contacts, response, user_states, stored, disk, file_day,
                   written_on, invalid_run>>

NextDays ==
    \/ \E phone_number \in Senders, message \in WalkMessages,
          generator \in GeneratorOutcomes \cup {"unused"} :
           ProcessMessage(phone_number, message, "", generator)
    \/ Restart
    \/ Midnight

SpecDays == Init /\ [][NextDays]_vars

(***************************************************************************)
(* The engine with damaged records in the store file                       *)
(***************************************************************************)
\* The fields get_user_state's callers read from a restored record.
RecordKeys == {"current_state", "conversation_data", "message_count"}

\* The store file is edited between calls: a record loses one of its fields.
DamageRecord(phone_number, key) ==
    /\ phone_number \in DOMAIN stored
    /\ key \in DOMAIN stored[phone_number]
    /\ stored' = Put(stored, phone_number, Without(stored[phone_number], key))
    /\ last' = [NoCall EXCEPT !.kind = "damage", !.phone_number = phone_number,
                              !.pre_mem = user_states, !.pre_store = stored]
    /\ UNCHANGED <<inflight, flow_id, llm_enabled, contacts, response, user_states, disk, today, file_day,
                   written_on, invalid_run>>

NextDamaged ==
    \/ \E phone_number \in Senders, message \in WalkMessages,
          generator \in GeneratorOutcomes \cup {"unused"} :
           ProcessMessage(phone_number, message, "", generator)
    \/ Restart
    \/ \E phone_number \in Senders, key \in RecordKeys : DamageRecord(phone_number, key)

SpecDamaged == Init /\ [][NextDamaged]_vars

(***************************************************************************)
(* Two senders, one call at a time, with resets                            *)
(***************************************************************************)
ResetSenders == Senders \cup {"+971500000002"}

\* One qualifying walk through the standard flow.
ResetMessages == {m_Yes, m_Salaried, m_about_7500, m_Expat}

NextReset ==
    \/ \E phone_number \in ResetSenders, message \in ResetMessages,
          generator \in GeneratorOutcomes \cup {"unused"} :
           ProcessMessage(phone_number, message, "", generator)
    \/ \E phone_number \in ResetSenders : ResetUser(phone_number)
    \/ Restart

SpecReset == Init /\ [][NextReset]_vars

(***************************************************************************)
(* The ConversationStore alone: set and delete for two senders, with the   *)
(* file failing between the operations                                     *)
(***************************************************************************)
\* The state dicts handed to set.
StoreStates ==
    { NewUserState,
      [NewUserState EXCEPT !.current_state = "END", !.message_count = 7,
                           !.outcome = "qualified"] }

\* ConversationStore.set(phone_number, state)
StoreSet(phone_number, state) ==
    /\ \E w \in {store_set(World, phone_number, state)} :
           stored' = w.store /\ disk' = w.disk
    /\ last' = [NoCall EXCEPT !.kind = "set", !.phone_number = phone_number,
                              !.pre_store = stored, !.pre_disk = disk]
    /\ UNCHANGED <<inflight, flow_id, llm_enabled, contacts, response, user_states, today,
                   file_day, written_on, invalid_run>>

\* ConversationStore.delete(phone_number)
StoreDelete(phone_number) ==
    /\ \E w \in {store_delete(World, phone_number)} :
           stored' = w.store /\ disk' = w.disk
    /\ last' = [NoCall EXCEPT !.kind = "delete", !.phone_number = phone_number,
                              !.pre_store = stored, !.pre_disk = disk]
    /\ UNCHANGED <<inflight, flow_id, llm_enabled, contacts, response, user_states, today,
                   file_day, written_on, invalid_run>>

\* Reading the file starts to fail (open raises) while its text stays.
ReadsBlocked ==
    /\ disk = "ok"
    /\ disk' = "blocked"
    /\ last' = [NoCall EXCEPT !.kind = "disk"]
    /\ UNCHANGED <<inflight, flow_id, llm_enabled, contacts, response, user_states, stored,
                   today, file_day, written_on, invalid_run>>

\* Reading the file works again.
ReadsRecover ==
    /\ disk = "blocked"
    /\ disk' = "ok"
    /\ last' = [NoCall EXCEPT !.kind = "disk"]
    /\ UNCHANGED <<inflight, flow_id, llm_enabled, contacts, response, user_states, stored,
                   today, file_day, written_on, invalid_run>>

NextStore ==
    \/ \E phone_number \in ResetSenders, state \in StoreStates :
           StoreSet(phone_number, state)
    \/ \E phone_number \in ResetSenders : StoreDelete(phone_number)
    \/ FileLost
    \/ WritesFail
    \/ WritesRecover
    \/ ReadsBlocked
    \/ ReadsRecover

SpecStore == Init /\ [][NextStore]_vars

(***************************************************************************)
(* Concurrent calls.  The development server handles each request in its   *)
(* own thread and nothing in app.py, DialogueManager or ConversationStore   *)
(* takes a lock, so the steps of two process_message calls interleave.  A   *)
(* call is modelled in three steps: reading current_state_id, running the   *)
(* handler on the shared user_states up to the read of the file by its      *)
(* store.set, and writing the file.                                         *)
(***************************************************************************)
\* The senders of concurrent calls.
RaceSenders == Senders \cup {"+971500000002"}

\* The messages of the calls.
RaceMessages == {m_Yes, m_No}

AllIdle == \A t \in Threads : inflight.calls[t].pc = "idle"

\* A call that runs alone, from its first line to its return.
Serve(phone_number, message) ==
    /\ AllIdle
    /\ \E r \in {process_message(World, phone_number, message, "")} :
          user_states' = r.mem /\ stored' = r.store
    /\ UNCHANGED <<flow_id, llm_enabled, contacts, response, disk, today, file_day, written_on,
                   inflight, last, invalid_run>>

\* process_message lines 113-114: user_state = self.get_user_state(...),
\* current_state_id = user_state['current_state']
ReadState(t, phone_number, message) ==
    /\ inflight.calls[t].pc = "idle"
    /\ \E w1 \in {get_user_state(World, phone_number)} :
          /\ user_states' = w1.mem
          /\ inflight' =
                [ base |-> IF AllIdle THEN World ELSE inflight.base,
                  calls |-> [inflight.calls EXCEPT ![t] =
                      [IdleCall EXCEPT !.pc = "read", !.phone_number = phone_number,
                                       !.message = message,
                                       !.current_state_id =
                                           w1.mem[phone_number].current_state]] ]
    /\ UNCHANGED <<flow_id, llm_enabled, contacts, response, stored, disk, today, file_day, written_on,
                   last, invalid_run>>

\* process_message lines 120-147: the handler chosen by the current_state_id
\* that was read, run on user_states as they are now; when the handler
\* persists, its store.set has read the file (data = self._read_all())
RunHandler(t) ==
    LET call == inflight.calls[t]
    IN  /\ call.pc = "read"
        /\ \E r \in {dispatch(World, call.current_state_id, call.phone_number,
                               call.message, "")} :
              /\ user_states' = r.mem
              /\ inflight' =
                    [inflight EXCEPT !.calls[t] =
                        [call EXCEPT !.pc = IF r.store # stored THEN "set" ELSE "done",
                                     !.data = read_all(World),
                                     !.reply = r.reply, !.ended = r.ended,
                                     !.raised = r.raised]]
        /\ UNCHANGED <<flow_id, llm_enabled, contacts, response, stored, disk, today, file_day, written_on,
                       last, invalid_run>>

\* ConversationStore.set lines 46-47: data[phone_number] = state (the live
\* state dict), self._write_all(data)
WriteFile(t) ==
    LET call == inflight.calls[t]
    IN  /\ call.pc = "set"
        /\ \E w \in {write_all(World, Put(call.data, call.phone_number,
                                           user_states[call.phone_number]))} :
              stored' = w.store /\ disk' = w.disk
        /\ inflight' = [inflight EXCEPT !.calls[t].pc = "done"]
        /\ UNCHANGED <<flow_id, llm_enabled, contacts, response, user_states, today, file_day, written_on,
                       last, invalid_run>>

NextRace ==
    \/ \E phone_number \in RaceSenders, message \in RaceMessages :
           Serve(phone_number, message)
    \/ \E t \in Threads, phone_number \in RaceSenders, message \in RaceMessages :
           ReadState(t, phone_number, message)
    \/ \E t \in Threads : RunHandler(t)
    \/ \E t \in Threads : WriteFile(t)

SpecRace == Init /\ [][NextRace]_vars

(***************************************************************************)
(* Properties                                                              *)
(***************************************************************************)
\* The last operation was a process_message call.
Called == last.kind = "process"

\* The sender of the last call, and that sender's state after it.
Caller == last.phone_number

After == user_states[Caller]

\* C1: a first process_message call for a sender with no in-memory and no
\* stored state starts from the INITIAL state dict, returns INITIAL's
\* message_template with every {name} replaced by the display name ("there"
\* when none is given), moves the sender to INITIAL.next_state (default
\* AWAITING_INTEREST), and returns ended = False, for every message text.
C1_FirstContactGreets ==
    (Called /\ ~last.known) =>
        LET initial  == Get(States, "INITIAL", EmptyDict)
            template == Get(initial, "message_template", <<>>)
            shown    == IF last.user_name = "" THEN "there" ELSE last.user_name
        IN  /\ last.pre = NewUserState
            /\ last.raised = "none"
            /\ Len(last.reply) = Len(template)
            /\ \A i \in 1..Len(template) :
                   last.reply[i] = (IF template[i] = "{name}" THEN shown ELSE template[i])
            /\ After.current_state =
                   (IF "next_state" \in DOMAIN initial
                    THEN initial.next_state ELSE "AWAITING_INTEREST")
            /\ After.message_count = 1
            /\ ~last.ended

\* C1 witness: a first contact without a name was greeted as "there" and now
\* waits in AWAITING_INTEREST.
C1_Witness ==
    /\ Called /\ ~last.known /\ last.user_name = ""
    /\ \E i \in 1..Len(last.reply) : last.reply[i] = "there"
    /\ After.current_state = "AWAITING_INTEREST"

\* C2: a process_message call for a sender whose current_state is END returns
\* the fixed closing message with ended = True, raises nothing, and leaves the
\* sender's in-memory state and the store unchanged, for every message text.
C2_EndIsAbsorbing ==
    (Called /\ last.pre.current_state = "END") =>
        /\ last.raised = "none"
        /\ last.reply = ClosingMessage
        /\ last.ended
        /\ After = last.pre
        /\ stored = last.pre_store

\* C2 witness: a sender that ended with an outcome sent another message.
C2_Witness ==
    /\ Called /\ last.pre.current_state = "END" /\ last.pre.outcome = "qualified"
    /\ Caller \in DOMAIN stored /\ stored[Caller].outcome = "qualified"

\* The last call ran the eligibility evaluation: it was made in
\* EVALUATE_ELIGIBILITY, or it left AWAITING_ANSWER_3 with a valid answer.
Evaluated ==
    /\ Called /\ last.raised = "none"
    /\ \/ last.pre.current_state = "EVALUATE_ELIGIBILITY"
       \/ /\ last.pre.current_state = "AWAITING_ANSWER_3"
          /\ After.current_state # "AWAITING_ANSWER_3"

\* The qualification_rules of the flow's EVALUATE_ELIGIBILITY state.
Rules == Get(Get(States, "EVALUATE_ELIGIBILITY", EmptyDict), "qualification_rules", EmptyDict)

\* The outcome the rules give when a missing field fails its predicate.
OutcomeByPresentFields(conversation_data, rules) ==
    IF /\ "employment_type" \in DOMAIN conversation_data
       /\ conversation_data["employment_type"] \in Get(rules, "employment_type", {})
       /\ "monthly_income" \in DOMAIN conversation_data
       /\ conversation_data["monthly_income"] >= Get(rules, "monthly_income_minimum", 5000)
       /\ "residency_status" \in DOMAIN conversation_data
       /\ conversation_data["residency_status"] \in Get(rules, "residency_status", {})
    THEN "qualified" ELSE "disqualified"

\* C3: whenever a call evaluates eligibility, the outcome is qualified exactly
\* when employment_type is present and allowed, monthly_income is present and
\* at least monthly_income_minimum, and residency_status is present and
\* allowed (a missing field fails its predicate, for every rule set);
\* otherwise disqualified; the sender is at END and ended = True.
C3_MissingFieldFails ==
    Evaluated =>
        /\ After.outcome = OutcomeByPresentFields(After.conversation_data, Rules)
        /\ After.current_state = "END"
        /\ last.ended

\* The Yes/No gate of the flow and its keyword sets.
Gate == Get(States, "AWAITING_INTEREST", EmptyDict)

\* The last call was made while the sender was in the Yes/No gate.
InGate == Called /\ last.pre.current_state = "AWAITING_INTEREST"

\* Case-insensitive containment of one of the keywords in the message.
ContainsAnyIgnoringCase(keywords, message) ==
    \E keyword \in keywords : str_contains(str_lower(keyword), str_strip(str_lower(message)))

\* The classification of a gate message as C4 states it.
ClaimedClass(message) ==
    IF ContainsAnyIgnoringCase(Get(Gate, "positive_keywords", {}), message) THEN "positive"
    ELSE IF ContainsAnyIgnoringCase(Get(Gate, "negative_keywords", {}), message) THEN "negative"
    ELSE "unclear"

\* C4: in the Yes/No gate a message is classified by case-insensitive keyword
\* containment, positive before negative; positive moves the sender to
\* on_positive.next_state with ended = False, negative moves the sender to END
\* with ended = True, unclear leaves current_state unchanged with ended = False.
C4_GateClassification ==
    InGate =>
        /\ last.raised = "none"
        /\ CASE ClaimedClass(last.message) = "positive" ->
                    /\ After.current_state =
                           Get(Get(Gate, "on_positive", EmptyDict), "next_state", "QUESTION_1")
                    /\ ~last.ended
             [] ClaimedClass(last.message) = "negative" ->
                    /\ After.current_state = "END"
                    /\ last.ended
             [] OTHER ->
                    /\ After.current_state = "AWAITING_INTEREST"
                    /\ ~last.ended

\* The gate message of the last call matched no positive and no negative
\* keyword (as the engine matches them).
UnclearInput ==
    /\ InGate
    /\ ~any_keyword_in(Get(Gate, "positive_keywords", {}), normalize(last.message))
    /\ ~any_keyword_in(Get(Gate, "negative_keywords", {}), normalize(last.message))

\* error_handling.max_retries (default 2)
MaxRetries == Get(Get(flow, "error_handling", EmptyDict), "max_retries", 2)

\* C5: with max_retries = 2, an unclear gate input returns with ended = False
\* and current_state unchanged; while the generator is enabled and fewer than
\* two unclear inputs were counted it takes the clarification path (counting
\* the attempt in retry_count), and otherwise it returns the gate's static
\* unclear message and counts nothing.
C5_RetryBound ==
    (UnclearInput /\ MaxRetries = 2) =>
        /\ last.raised = "none"
        /\ ~last.ended
        /\ After.current_state = "AWAITING_INTEREST"
        /\ IF llm_enabled /\ last.pre.retry_count < 2
           THEN After.retry_count = last.pre.retry_count + 1
           ELSE /\ last.reply = Get(Get(Gate, "on_unclear", EmptyDict), "message",
                                    <<"Please reply with Yes or No.">>)
                /\ After.retry_count = last.pre.retry_count

\* The state the last call was made in has no handler: it is neither INITIAL
\* nor END, and it is no key of the flow's states or a key that no branch of
\* process_message routes.
Unroutable ==
    /\ Called
    /\ last.pre.current_state \notin {"INITIAL", "END"}
    /\ \/ last.pre.current_state \notin DOMAIN States
       \/ last.pre.current_state \notin
              {"AWAITING_INTEREST", "EVALUATE_ELIGIBILITY",
               "AWAITING_ANSWER_1", "AWAITING_ANSWER_2", "AWAITING_ANSWER_3",
               "QUESTION_1", "QUESTION_2", "QUESTION_3"}

\* C6: a call made in a state that is no key of the flow's states, or a key
\* that no handler routes, moves the sender to END, returns
\* error_handling.technical_error_message with ended = True and raises nothing.
C6_UnknownStateEndsWithError ==
    Unroutable =>
        /\ last.raised = "none"
        /\ After.current_state = "END"
        /\ Caller \in DOMAIN stored /\ stored[Caller].current_state = "END"
        /\ last.reply = Get(Get(flow, "error_handling", EmptyDict), "technical_error_message",
                            <<"I'm experiencing technical difficulties.">>)
        /\ last.ended

\* C6 witness: a sender parked by the flow in CONFIRM_DETAILS (a key of states
\* without a handler) was moved to END by the next message.
C6_Witness ==
    /\ Unroutable /\ last.pre.current_state = "CONFIRM_DETAILS"
    /\ last.pre.current_state \in DOMAIN States
    /\ After.current_state = "END" /\ last.ended

\* The other case of C6: the state is no key of the flow's states.
C6_WitnessMissingKey ==
    /\ Unroutable /\ last.pre.current_state \notin DOMAIN States
    /\ After.current_state = "END" /\ last.ended

\* The last call was made in one of the validated-answer states.
InAnswerState == Called /\ last.pre.current_state \in AnswerStates

\* The flow's definition of the state the last call was made in.
AnswerState == Get(States, last.pre.current_state, EmptyDict)

\* The answer of the last call is invalid: in the income state it holds no
\* digit, in the other two it contains no keyword of any keyword set.
InvalidAnswer ==
    /\ InAnswerState
    /\ IF last.pre.current_state = "AWAITING_ANSWER_2"
       THEN \A i \in 1..Len(last.message) : ~IsDigit(last.message[i])
       ELSE LET sets == Get(AnswerState, "valid_responses", EmptyDict)
            IN  \A value \in DOMAIN sets :
                    ~any_keyword_in(sets[value], normalize(last.message))

\* The default invalid-input message of each validated-answer state.
DefaultInvalidMessage(state_id) ==
    CASE state_id = "AWAITING_ANSWER_1" -> <<"Please specify Salaried or Self-employed.">>
      [] state_id = "AWAITING_ANSWER_2" -> <<"Please provide a numeric value.">>
      [] OTHER -> <<"Please specify UAE National or Expatriate.">>

\* C7: an invalid answer in a validated-answer state returns the state's
\* invalid-input message with ended = False and leaves current_state,
\* conversation_data, retry_count and outcome unchanged; and after any number
\* of consecutive invalid answers a valid answer still moves the sender on.
C7_InvalidAnswerReprompts ==
    /\ InvalidAnswer =>
          /\ last.raised = "none"
          /\ last.reply = Get(Get(AnswerState, "on_invalid", EmptyDict), "message",
                              DefaultInvalidMessage(last.pre.current_state))
          /\ ~last.ended
          /\ After.current_state = last.pre.current_state
          /\ After.conversation_data = last.pre.conversation_data
          /\ After.retry_count = last.pre.retry_count
          /\ After.outcome = last.pre.outcome
          /\ invalid_run[Caller] = IF last.pre_invalid_run < MaxInvalidRun
                                   THEN last.pre_invalid_run + 1 ELSE MaxInvalidRun
    /\ (InAnswerState /\ ~InvalidAnswer) =>
          /\ last.raised = "none"
          /\ After.current_state # last.pre.current_state
          /\ After.message_count > last.pre.message_count

\* C7 witness: after MaxInvalidRun consecutive invalid answers in the income
\* state, a valid income moved the sender to QUESTION_3.
C7_Witness ==
    /\ InAnswerState /\ ~InvalidAnswer
    /\ last.pre_invalid_run = MaxInvalidRun
    /\ last.pre.current_state = "AWAITING_ANSWER_2"
    /\ After.current_state = "QUESTION_3"

\* The field each validated-answer state stores its value under.
StoreAs(state_id) ==
    Get(Get(States, state_id, EmptyDict), "store_as",
        CASE state_id = "AWAITING_ANSWER_1" -> "employment_type"
          [] state_id = "AWAITING_ANSWER_2" -> "monthly_income"
          [] OTHER -> "residency_status")

\* Every entry of a conversation_data is a canonical value under the store_as
\* field of one of the three validated-answer states.
Canonical(conversation_data) ==
    \A field \in DOMAIN conversation_data :
        \/ /\ field = StoreAs("AWAITING_ANSWER_1")
           /\ conversation_data[field] \in {"salaried", "self-employed"}
        \/ /\ field = StoreAs("AWAITING_ANSWER_3")
           /\ conversation_data[field] \in {"uae_national", "expatriate"}
        \/ /\ field = StoreAs("AWAITING_ANSWER_2")
           /\ conversation_data[field] \in Nat
           /\ conversation_data[field] >=
                  Get(Get(States, "AWAITING_ANSWER_2", EmptyDict), "minimum_income", 5000)

\* The answer of the last call matched: it is valid and, in the income state,
\* not below the state's minimum.
MatchedAnswer ==
    /\ InAnswerState /\ ~InvalidAnswer
    /\ last.pre.current_state = "AWAITING_ANSWER_2" =>
           str_to_int(re_findall_digits(normalize(last.message))[1]) >=
               Get(AnswerState, "minimum_income", 5000)

\* C8: in memory and in the store, every entry of every conversation_data is
\* a canonical value under the store_as field of its answer state (employment:
\* salaried or self-employed; residency: uae_national or expatriate; income: an
\* integer at least minimum_income); a matched answer stores its value (for the
\* income, the integer extracted from the message) and moves the sender on in
\* the same call, and no other call in an answer state changes the data.
C8_StoredValuesCanonical ==
    /\ \A p \in DOMAIN user_states : Canonical(user_states[p].conversation_data)
    /\ \A p \in DOMAIN stored : Canonical(stored[p].conversation_data)
    /\ MatchedAnswer =>
          LET field == StoreAs(last.pre.current_state)
          IN  /\ field \in DOMAIN After.conversation_data
              /\ After.current_state # last.pre.current_state
              /\ stored[Caller].conversation_data = After.conversation_data
              /\ last.pre.current_state = "AWAITING_ANSWER_2" =>
                     After.conversation_data[field] =
                         str_to_int(re_findall_digits(normalize(last.message))[1])
    /\ (InAnswerState /\ ~MatchedAnswer) =>
          After.conversation_data = last.pre.conversation_data

\* C8 witness: a matched income answer stored the extracted integer 7500 and
\* moved the sender to QUESTION_3, next to a stored employment value.
C8_Witness ==
    /\ MatchedAnswer /\ last.pre.current_state = "AWAITING_ANSWER_2"
    /\ After.current_state = "QUESTION_3"
    /\ After.conversation_data[StoreAs("AWAITING_ANSWER_2")] = 7500
    /\ After.conversation_data[StoreAs("AWAITING_ANSWER_1")] \in {"salaried", "self-employed"}

\* The last call was an income answer whose first number is below the income
\* state's minimum.
BelowMinimumAnswer ==
    /\ Called /\ last.pre.current_state = "AWAITING_ANSWER_2"
    /\ re_findall_digits(normalize(last.message)) # <<>>
    /\ str_to_int(re_findall_digits(normalize(last.message))[1]) <
           Get(AnswerState, "minimum_income", 5000)

\* C9: an income answer below the minimum ends the conversation with
\* ended = True, current_state END and outcome disqualified.
C9_BelowMinimumDisqualifies ==
    BelowMinimumAnswer =>
        /\ last.raised = "none"
        /\ last.ended
        /\ After.current_state = "END"
        /\ After.outcome = "disqualified"

\* The last call was a residency answer that matched a keyword set.
ValidResidencyAnswer ==
    /\ Called /\ last.pre.current_state = "AWAITING_ANSWER_3" /\ ~InvalidAnswer

\* What C10 says of a valid residency answer: the same call stores the
\* residency value, returns the qualified or the not-qualified message with
\* ended = True, and leaves the sender at END with the outcome set, in memory
\* and in the store.
ResidencyChainsIntoEvaluation ==
    ValidResidencyAnswer =>
        LET evaluator == Get(States, "EVALUATE_ELIGIBILITY", EmptyDict)
            field     == StoreAs("AWAITING_ANSWER_3")
        IN  /\ last.raised = "none"
            /\ field \in DOMAIN After.conversation_data
            /\ After.conversation_data[field] \in {"uae_national", "expatriate"}
            /\ After.current_state = "END"
            /\ After.outcome \in {"qualified", "disqualified"}
            /\ last.ended
            /\ last.reply =
                   (IF After.outcome = "qualified"
                    THEN str_replace(Get(Get(evaluator, "on_qualified", EmptyDict),
                                         "message_template", <<>>),
                                     "{calendly_link}",
                                     Get(flow, "calendly_link", "https://calendly.com"))
                    ELSE Get(Get(evaluator, "on_not_qualified", EmptyDict), "message",
                             <<"Thank you for your time.">>))
            /\ stored[Caller] = After

\* The next_state the flow configures for the state or branch the last call
\* was made in: INITIAL.next_state, the gate's on_positive.next_state, or a
\* QUESTION state's next_state.
ConfiguredNextStates ==
    CASE last.pre.current_state = "INITIAL" ->
            {Get(Get(States, "INITIAL", EmptyDict), "next_state", "AWAITING_INTEREST")}
      [] last.pre.current_state = "AWAITING_INTEREST" ->
            {Get(Get(Gate, "on_positive", EmptyDict), "next_state", "QUESTION_1")}
      [] last.pre.current_state \in {"QUESTION_1", "QUESTION_2", "QUESTION_3"} ->
            {Get(Get(States, last.pre.current_state, EmptyDict), "next_state", "END")}
      [] OTHER -> {}

\* C10 as stated: a valid residency answer is evaluated in the same call, and
\* no process_message call returns with current_state EVALUATE_ELIGIBILITY.
C10_NeverRestsInEvaluate ==
    /\ ResidencyChainsIntoEvaluation
    /\ (Called /\ last.raised = "none") => After.current_state # "EVALUATE_ELIGIBILITY"

\* C10 amended: a valid residency answer is evaluated in the same call; a call
\* returns with current_state EVALUATE_ELIGIBILITY only when it newly moved the
\* sender there along a next_state the flow configures for INITIAL, for the
\* gate's positive branch or for a QUESTION state, never from an answer state.
C10_EvaluateOnlyByFlowTransition ==
    /\ ResidencyChainsIntoEvaluation
    /\ (Called /\ After.current_state = "EVALUATE_ELIGIBILITY") =>
          /\ last.raised = "none"
          /\ last.pre.current_state \notin AnswerStates
          /\ "EVALUATE_ELIGIBILITY" \in ConfiguredNextStates

\* C10 witness: a valid residency answer ended the conversation as qualified
\* within the call that carried it.
C10_Witness ==
    /\ ValidResidencyAnswer
    /\ After.current_state = "END" /\ After.outcome = "qualified" /\ last.ended
    /\ After.message_count = last.pre.message_count + 2
\* C13: write-through.  Whenever a process_message call that changed the
\* sender's state returns while the store can be written, the record of the
\* sender in the store equals the in-memory state in each of the five fields
\* (an outcome set by the eligibility evaluation and a changed retry_count
\* included).
C13_WriteThrough ==
    (Called /\ last.raised = "none" /\ disk = "ok" /\ After # last.pre) =>
        /\ Caller \in DOMAIN stored
        /\ stored[Caller].current_state = After.current_state
        /\ stored[Caller].conversation_data = After.conversation_data
        /\ stored[Caller].message_count = After.message_count
        /\ stored[Caller].retry_count = After.retry_count
        /\ stored[Caller].outcome = After.outcome

\* C13 witness: the eligibility evaluation set an outcome and the stored
\* record carries it.
C13_Witness ==
    /\ Evaluated /\ After # last.pre
    /\ After.outcome \in {"qualified", "disqualified"}
    /\ stored[Caller].outcome = After.outcome
    /\ stored[Caller].message_count = After.message_count

\* C14: round trip.  For every state dict the engine holds, get after set of
\* that dict returns a record equal in all five fields (the income an
\* integer, the outcome None or a string), and after delete get returns
\* nothing for the sender.
C14_StoreRoundTrip ==
    \A phone_number \in DOMAIN user_states :
        LET state == user_states[phone_number]
            set   == store_set(World, phone_number, state)
            got   == store_get(set, phone_number)
            gone  == store_delete(set, phone_number)
        IN  /\ DOMAIN got = DOMAIN state
            /\ got.current_state = state.current_state
            /\ got.conversation_data = state.conversation_data
            /\ got.message_count = state.message_count
            /\ got.retry_count = state.retry_count
            /\ got.outcome = state.outcome
            /\ phone_number \notin DOMAIN read_all(gone)
            /\ store_get(gone, phone_number) = EmptyDict

\* C14 witness: a state with an integer income and no outcome yet was set
\* and is read back from the store with the same income and outcome.
C14_Witness ==
    /\ Called /\ last.pre.current_state = "AWAITING_ANSWER_2"
    /\ \E field \in IntFields :
          /\ field \in DOMAIN After.conversation_data
          /\ After.conversation_data[field] = 7500
          /\ store_get(World, Caller).conversation_data[field] = 7500
    /\ After.outcome = "None"
    /\ store_get(World, Caller).outcome = "None"
\* The static message of the gate's unclear branch.
StaticUnclearMessage ==
    Get(Get(Gate, "on_unclear", EmptyDict), "message", <<"Please reply with Yes or No.">>)

\* The last call was an unclear gate input that the generator was asked about:
\* the generator is enabled and retry_count was below the cap.
ReachedGenerator ==
    UnclearInput /\ is_enabled /\ last.pre.retry_count < MaxRetries

\* C17: the generator is never needed.  When an unclear gate input reaches
\* the enabled generator and the generator raises or returns an empty
\* result, process_message returns the static unclear message with
\* ended = False, raises nothing and leaves current_state unchanged.
C17_GeneratorNeverNeeded ==
    (ReachedGenerator /\ last.generator \in {"empty", "raises"}) =>
        /\ generate_clarification(last.generator) = <<>>
        /\ last.raised = "none"
        /\ last.reply = StaticUnclearMessage
        /\ ~last.ended
        /\ After.current_state = last.pre.current_state

C19_UnclearCountsRetry ==
    (UnclearInput /\ last.pre.retry_count < MaxRetries) =>
        /\ last.raised = "none"
        /\ After.retry_count = last.pre.retry_count + 1
        /\ Caller \in DOMAIN stored
        /\ stored[Caller].retry_count = last.pre.retry_count + 1

\* C20: a call that only re-prompts (an invalid answer, an unclear gate
\* input) still counts the message: message_count is incremented, the stored
\* record carries the new message_count and retry_count, and the stored
\* current_state is the one stored before the call.
C20_RepromptCountsMessage ==
    (InvalidAnswer \/ UnclearInput) =>
        /\ last.raised = "none"
        /\ After.message_count = last.pre.message_count + 1
        /\ Caller \in DOMAIN stored
        /\ stored[Caller].message_count = After.message_count
        /\ stored[Caller].retry_count = After.retry_count
        /\ Caller \in DOMAIN last.pre_store
        /\ stored[Caller].current_state = last.pre_store[Caller].current_state
\* The last call as it would run on the same memory and file content with a
\* file that can be read and written.
WithWorkingStore ==
    process_message([mem |-> last.pre_mem, store |-> last.pre_store, disk |-> "ok"],
                    Caller, last.message, last.user_name)

C15_DayScopedPersistence ==
    (last.kind = "restart") =>
        \A phone_number \in Senders :
            written_on[phone_number] > 0 =>
                /\ (store_get(World, phone_number) # EmptyDict)
                      <=> (written_on[phone_number] = today)
                /\ written_on[phone_number] < today =>
                      get_user_state(World, phone_number).mem[phone_number] = NewUserState
\* Both concurrent calls have returned.
BothReturned == \A t \in Threads : inflight.calls[t].pc = "done"

\* The two calls run one after the other from the world before them: first
\* the call of thread `first`, then the call of thread `second`.
InOrder(first, second) ==
    LET a == inflight.calls[first]
        b == inflight.calls[second]
        ra == process_message(inflight.base, a.phone_number, a.message, "")
        rb == process_message([mem |-> ra.mem, store |-> ra.store, disk |-> ra.disk],
                              b.phone_number, b.message, "")
    IN  [ mem |-> rb.mem, store |-> rb.store,
          replies |-> (first :> <<ra.reply, ra.ended, ra.raised>>)
                        @@ (second :> <<rb.reply, rb.ended, rb.raised>>) ]

\* What the two concurrent calls did.
Concurrently ==
    [ mem |-> user_states, store |-> stored,
      replies |-> [t \in Threads |-> <<inflight.calls[t].reply, inflight.calls[t].ended,
                                        inflight.calls[t].raised>>] ]

\* C11: two process_message calls for the same sender that the transport
\* runs concurrently are serialized: when both have returned, the states in
\* memory and in the store and the two replies are those of the two calls run
\* one after the other, in one of the two orders.
C11_SameSenderSerialized ==
    (BothReturned /\ inflight.calls[1].phone_number = inflight.calls[2].phone_number) =>
        \/ Concurrently = InOrder(1, 2)
        \/ Concurrently = InOrder(2, 1)

\* The call of thread t run alone from the world before the two calls.
Alone(t) ==
    process_message(inflight.base, inflight.calls[t].phone_number,
                    inflight.calls[t].message, "")

\* C12: concurrent calls for different senders are independent: when both
\* have returned, the in-memory state and the stored record of each sender
\* are those of that sender's call run alone, so neither stored record is
\* lost or reverted by the other's write.
C12_DifferentSendersIndependent ==
    (BothReturned /\ inflight.calls[1].phone_number # inflight.calls[2].phone_number) =>
        \A t \in Threads :
            LET phone_number == inflight.calls[t].phone_number
            IN  /\ user_states[phone_number] = Alone(t).mem[phone_number]
                /\ Get(stored, phone_number, EmptyDict)
                     = Get(Alone(t).store, phone_number, EmptyDict)
\* The identifiers a current_state may hold: the keys of the flow's states,
\* INITIAL and END.
KnownStateIds == DOMAIN States \cup {"INITIAL", "END"}

\* C25: in every reachable state each sender's current_state, in memory and
\* in the stored record, is a key of the loaded flow's states, INITIAL or
\* END; no transition stores another identifier.
C25_CurrentStateIsKnown ==
    /\ \A phone_number \in DOMAIN user_states :
          user_states[phone_number].current_state \in KnownStateIds
    /\ \A phone_number \in DOMAIN stored :
          stored[phone_number].current_state \in KnownStateIds

\* C26: in every reachable state and for every sender, retry_count is an
\* integer between 0 and error_handling.max_retries (default 2), in memory
\* and in the stored record.
C26_RetryCountBounded ==
    /\ \A phone_number \in DOMAIN user_states :
          user_states[phone_number].retry_count \in 0..MaxRetries
    /\ \A phone_number \in DOMAIN stored :
          stored[phone_number].retry_count \in 0..MaxRetries

\* C26 witness: an unclear gate input was answered and the sender's
\* retry_count is within the cap in memory and in the store.
C26_Witness ==
    /\ UnclearInput /\ last.raised = "none"
    /\ After.retry_count \in 0..MaxRetries
    /\ Caller \in DOMAIN stored
    /\ stored[Caller].retry_count \in 0..MaxRetries
\* The message_count the next call for a sender starts from: the in-memory
\* state, else the stored record, else a new state.
message_count_of(phone_number) ==
    get_user_state(World, phone_number).mem[phone_number].message_count

state_of(phone_number) == get_user_state(World, phone_number).mem[phone_number]

\* Every outcome in memory and in the store is null, qualified or
\* disqualified, and is null unless the sender is at END.
OutcomeOnlyAtEnd ==
    \A states \in {user_states, stored} : \A phone_number \in DOMAIN states :
        /\ states[phone_number].outcome \in {"None", "qualified", "disqualified"}
        /\ states[phone_number].outcome # "None"
              => states[phone_number].current_state = "END"

FirstDigitRun(text) ==
    LET first == SetMin({i \in 1..Len(text) : IsDigit(text[i])})
        stop  == SetMax({j \in first..Len(text) :
                            \A k \in first..j : IsDigit(text[k])})
    IN  SubSeq(text, first, stop)

DecimalValue(run) ==
    LET value[i \in 0..Len(run)] ==
            IF i = 0 THEN 0 ELSE 10 * value[i - 1] + DigitVal(run[i])
    IN  value[Len(run)]

HasDigit(text) == \E i \in 1..Len(text) : IsDigit(text[i])

\* C29: in AWAITING_ANSWER_2 the income is the integer written by the first
\* maximal digit run of the message and later runs are ignored; a message
\* without a digit is an invalid answer (re-prompt, nothing changes); an
\* income below minimum_income ends the conversation and an income equal to
\* or above it is stored and moves the sender to QUESTION_3.
C29_IncomeIsFirstDigitRun ==
    (Called /\ last.pre.current_state = "AWAITING_ANSWER_2") =>
        LET text == normalize(last.message)
            minimum_income == Get(AnswerState, "minimum_income", 5000)
        IN  /\ last.raised = "none"
            /\ IF ~HasDigit(text)
               THEN /\ ~last.ended
                    /\ last.reply = Get(Get(AnswerState, "on_invalid", EmptyDict), "message",
                                        <<"Please provide a numeric value.">>)
                    /\ After = last.pre
               ELSE LET income == DecimalValue(FirstDigitRun(text))
                    IN  IF income < minimum_income
                        THEN last.ended /\ After.current_state = "END"
                        ELSE /\ ~last.ended
                             /\ After.current_state = "QUESTION_3"
                             /\ After.conversation_data[StoreAs("AWAITING_ANSWER_2")] = income

\* C29 witness: with minimum_income 3000 the answer "4000-9000" was taken as
\* 4000, stored, and the sender moved to QUESTION_3.
C29_Witness ==
    /\ Called /\ last.pre.current_state = "AWAITING_ANSWER_2"
    /\ last.message = m_4000_to_9000
    /\ Get(AnswerState, "minimum_income", 5000) = 3000
    /\ After.current_state = "QUESTION_3"
    /\ After.conversation_data[StoreAs("AWAITING_ANSWER_2")] = 4000
\* C30: when an unclear gate input reaches the enabled generator and the
\* generator does not return, the call is cut off, takes the fallback path
\* and returns the static unclear message with ended = False.
C30_GeneratorTimeoutFallsBack ==
    (ReachedGenerator /\ ~generator_returns(last.generator)) =>
        /\ last.raised = "none"
        /\ last.reply = StaticUnclearMessage
        /\ ~last.ended
\* The last call restored a record that lacks one of the fields the engine
\* reads.
RestoredMalformed ==
    /\ Called /\ Caller \notin DOMAIN last.pre_mem
    /\ Caller \in DOMAIN last.pre_store
    /\ \E key \in RecordKeys : ~HasKey(last.pre, key)

TechnicalErrorMessage ==
    Get(Get(flow, "error_handling", EmptyDict), "technical_error_message",
        <<"I'm experiencing technical difficulties.">>)

\* C21: a call that restores a record lacking current_state,
\* conversation_data or message_count raises nothing, forces the sender to
\* END and returns the technical-error message with ended = True.
C21_MalformedRecordRecovers ==
    RestoredMalformed =>
        /\ last.raised = "none"
        /\ last.ended
        /\ last.reply = TechnicalErrorMessage
        /\ Get(After, "current_state", "") = "END"
\* The last step was a webhook request.
Posted == response.status # 0

\* C22: every webhook request is answered with status 200 and exactly one
\* reply message, whatever the state and the message and also when
\* process_message or the update of the contact ledger raised; the message
\* is the reply of process_message when it returned and the fixed error
\* text when it raised, never the exception.
C22_WebhookAlwaysAnswers ==
    Posted =>
        /\ response.status = 200
        /\ Len(response.messages) = 1
        /\ response.messages[1] =
               IF last.raised = "none" THEN last.reply ELSE WebhookErrorText

\* C22 witness: a request on which process_message raised was answered with
\* 200 and the error text.
C22_Witness ==
    /\ Posted /\ response.status = 200
    /\ last.raised # "none" /\ response.messages = <<WebhookErrorText>>
\* The ledger key of the sender of the last webhook request.
ContactKey == clean_phone_number(PhoneText[response.From])

\* The last webhook request came from a listed contact and the ledger did
\* not raise.
LedgerUpdated ==
    Posted /\ ContactKey \in DOMAIN response.pre_contacts /\ ~response.ledger_raises

\* The last request concluded the conversation with the given outcome.
ConcludedWith(outcome) ==
    last.raised = "none" /\ last.ended /\ After.outcome = outcome

\* Status after mark_replied as the claim states it.
MarkedReplied(status) == IF status \in {"pending", "contacted"} THEN "replied" ELSE status

\* C23: after a webhook request of a listed contact, the contact's Status is
\* qualified (disqualified) when the conversation ended with outcome
\* qualified (disqualified); in every other case the contact is marked
\* replied, which changes the Status only when it was pending or contacted.
C23_LedgerFollowsOutcome ==
    LedgerUpdated =>
        contacts[ContactKey].Status =
            IF ConcludedWith("qualified") THEN "qualified"
            ELSE IF ConcludedWith("disqualified") THEN "disqualified"
            ELSE MarkedReplied(response.pre_contacts[ContactKey].Status)

\* C23 for the requests on which process_message returned.
C23_LedgerFollowsOutcomeOnReturn ==
    (LedgerUpdated /\ last.raised = "none") =>
        contacts[ContactKey].Status =
            IF ConcludedWith("qualified") THEN "qualified"
            ELSE IF ConcludedWith("disqualified") THEN "disqualified"
            ELSE MarkedReplied(response.pre_contacts[ContactKey].Status)
\* The world of a process that has seen no sender.
EmptyWorld == [mem |-> EmptyDict, store |-> EmptyDict, disk |-> "ok"]

\* The sender's own part of what a call returns.
Outcome(r, phone_number) ==
    [reply |-> r.reply, ended |-> r.ended, raised |-> r.raised,
     state |-> r.mem[phone_number], record |-> Get(r.store, phone_number, EmptyDict)]

\* C24: after reset_user the sender has no in-memory state and no stored
\* record, every other sender's state and record are as before, and the
\* sender's next process_message call does what a first contact does: it
\* starts from the INITIAL state dict and returns the same reply, flag and
\* state as the call of a sender never seen.
C24_ResetIsFirstContact ==
    last.kind = "reset" =>
        /\ Caller \notin DOMAIN user_states
        /\ store_get(World, Caller) = EmptyDict
        /\ \A other \in AllSenders \ {Caller} :
              /\ Get(user_states, other, EmptyDict) = Get(last.pre_mem, other, EmptyDict)
              /\ Get(stored, other, EmptyDict) = Get(last.pre_store, other, EmptyDict)
        /\ get_user_state(World, Caller).mem[Caller] = NewUserState
        /\ \A message \in ResetMessages, user_name \in Names :
              Outcome(process_message(World, Caller, message, user_name), Caller) =
              Outcome(process_message(EmptyWorld, Caller, message, user_name), Caller)

\* C24 witness: a sender at END with an outcome was reset while another
\* sender was in the middle of a conversation.
C24_Witness ==
    /\ last.kind = "reset"
    /\ Caller \in DOMAIN last.pre_mem /\ Caller \in DOMAIN last.pre_store
    /\ last.pre_mem[Caller].current_state = "END"
    /\ last.pre_mem[Caller].outcome = "qualified"
    /\ \E other \in DOMAIN user_states : user_states[other].message_count >= 2
    /\ Caller \notin DOMAIN user_states /\ Caller \notin DOMAIN stored
\* C31: for every process_message call that returns, the ended flag is true
\* exactly when the sender's current_state after the call is END.
C31_EndedFlagAgreesWithState ==
    (Called /\ last.raised = "none") =>
        (last.ended <=> After.current_state = "END")
\* The flow has the qualification rules of the specification, an income
\* minimum of 5000 and store_as names equal to the rule field names.
SpecRulesFlow ==
    /\ "EVALUATE_ELIGIBILITY" \in DOMAIN States
    /\ Rules = [ employment_type |-> {"salaried", "self-employed"},
                 monthly_income_minimum |-> 5000,
                 residency_status |-> {"uae_national", "expatriate"} ]
    /\ Get(Get(States, "AWAITING_ANSWER_2", EmptyDict), "minimum_income", 5000) = 5000
    /\ StoreAs("AWAITING_ANSWER_1") = "employment_type"
    /\ StoreAs("AWAITING_ANSWER_2") = "monthly_income"
    /\ StoreAs("AWAITING_ANSWER_3") = "residency_status"

\* Every next_state the flow configures: of INITIAL, of the gate's positive
\* branch and of its QUESTION states (with the defaults of the code).
FlowNextStates ==
    {Get(Get(States, "INITIAL", EmptyDict), "next_state", "AWAITING_INTEREST"),
     Get(Get(Gate, "on_positive", EmptyDict), "next_state", "QUESTION_1")}
    \cup {Get(States[q], "next_state", "END") :
            q \in DOMAIN States \cap {"QUESTION_1", "QUESTION_2", "QUESTION_3"}}

\* No sender is disqualified, an evaluation qualifies, and a call that ends
\* the conversation in another way leaves the outcome null.
OnlyQualifiedOrNull ==
    /\ \A states \in {user_states, stored} : \A phone_number \in DOMAIN states :
          states[phone_number].outcome # "disqualified"
    /\ Evaluated => After.outcome = "qualified"
    /\ (Called /\ last.raised = "none" /\ ~Evaluated
          /\ last.pre.current_state # "END" /\ After.current_state = "END")
         => After.outcome = "None"

InTextBlindState ==
    /\ Called
    /\ last.pre.current_state \in {"INITIAL", "QUESTION_1", "QUESTION_2", "QUESTION_3"}

\* The world the last call started from.
PreWorld == [mem |-> last.pre_mem, store |-> last.pre_store, disk |-> last.pre_disk]

\* C33: a call made while the sender is in INITIAL or in a QUESTION state
\* does the same for every message text: the same reply, flag, states and
\* stored records as the call that was made, and conversation_data is left
\* as it was.
C33_TextIgnoredInInitialAndQuestion ==
    InTextBlindState =>
        /\ last.raised = "none"
        /\ After.conversation_data = last.pre.conversation_data
        /\ \A message \in Messages :
              \E r \in {process_message(PreWorld, Caller, message, last.user_name)} :
                  /\ r.reply = last.reply /\ r.ended = last.ended
                  /\ r.raised = last.raised
                  /\ r.mem = user_states /\ r.store = stored

\* C33 witness: "Salaried" was typed while QUESTION_1 was pending; the
\* question was sent and nothing was stored.
C33_Witness ==
    /\ InTextBlindState /\ last.pre.current_state = "QUESTION_1"
    /\ last.message = m_Salaried
    /\ After.current_state = "AWAITING_ANSWER_1"
    /\ After.conversation_data = EmptyDict
C35_OneCallCountsOnce ==
    (Called /\ last.raised = "none") =>
        After.message_count <= last.pre.message_count + 1

====
